---- MODULE Spec2Model ----
(***************************************************************************)
(* A model of src/src/coordinator.rs: the Coordinator of a torchft node.   *)
(* Every node owns a raft RawNode behind the driver lock (`node`), a Peer  *)
(* Registry (`peers`), a tick loop (run/tick/handle_messages), a bootstrap *)
(* task and the two handlers of the CoordinatorService (raft_message,      *)
(* info).  The raft library and the RPC transport are outside the file:    *)
(* what they return is drawn from small sets at the places the code calls  *)
(* them.                                                                   *)
(***************************************************************************)
EXTENDS Integers, Sequences, FiniteSets, TLC

\* ------------------------------------------------------------------ bounds
\* world_size of Coordinator::new: the cluster is ranks 0 .. WorldSize-1.
WorldSize == 3
\* Calls from outside over all nodes: tick cycles of run, calls of bootstrap,
\* Info and RaftMessage requests of RPC clients.
MaxCalls == 2
\* Messages one tick cycle collects (messages, persisted_messages and the
\* light ready together).
MaxBatch == 2
\* Addresses of a seed list.
MaxSeeds == 2

Nodes == 0 .. (WorldSize - 1)
Ranks == Nodes

\* Config.id of a node (Coordinator::new): ids start at 1.
Id(rank) == rank + 1

\* local_addr of each node, an address nobody listens on, and the empty seed.
LocalAddr(n) == <<"n0", "n1", "n2">>[n + 1]
DeadAddr == "x"
Addrs == {LocalAddr(n) : n \in Nodes} \cup {DeadAddr}
Listening(a) == \E n \in Nodes : LocalAddr(n) = a
NodeAt(a) == CHOOSE n \in Nodes : LocalAddr(n) = a

\* NodeInfo { rank, address }
NodeInfo(r, a) == [rank |-> r, address |-> a]
\* The requester slot of an info handler that serves nothing.
NoRequester == NodeInfo(0, "")
\* Coordinator::node: this node's own NodeInfo, built from local state.
SelfInfo(n) == NodeInfo(n, LocalAddr(n))

VARIABLES
    peers,      \* peers[n]: the Peer Registry, a function rank -> NodeInfo
    raft,       \* raft[n]: the RawNode's in-memory state
    store,      \* store[n]: the MemStorage behind the RawNode
    nodeLock,   \* nodeLock[n]: who holds Mutex<RawNode>: "free", "tick", "rpc"
    tpc,        \* tpc[n]: where the tick loop of run is
    ready,      \* ready[n]: the Ready of this tick
    messages,   \* messages[n]: the local Vec<RaftMessage> of tick
    midx,       \* midx[n]: the message handle_messages is at
    addr,       \* addr[n]: the address get_client resolved
    trace,      \* trace[n]: the calls of this tick cycle, in order
    outcome,    \* outcome[n]: what became of each message of this batch
    hpc,        \* hpc[n]: where the raft_message handler of n is
    hreq,       \* hreq[n]: the request bytes
    hsrc,       \* hsrc[n]: who called: "env" or the address of the dispatching node
    hres,       \* hres[n]: the last reply of the handler: "ok" or the Status
    bpc,        \* bpc[n]: where bootstrap of n is
    addresses,  \* addresses[n]: the work-list of bootstrap
    baddr,      \* baddr[n]: the address bootstrap popped
    bresp,      \* bresp[n]: the InfoResponse.peers bootstrap received
    pushes,     \* pushes[n][r]: pushes of this bootstrap run caused by rank r
    calls,      \* calls made from outside so far
    joined,     \* the nodes that had discovered each other at the start
    peersLock,  \* peersLock[n]: the task that holds the Mutex of peers, or "free"
    ipc,        \* ipc[n]: where the info handler of n is
    ireq,       \* ireq[n]: the requester of the Info request being served
    isrc        \* isrc[n]: who called info: "env" or the address of the caller

tickVars == <<tpc, ready, messages, midx, addr, trace, outcome>>
rpcVars == <<hpc, hreq, hsrc, hres>>
bootVars == <<bpc, addresses, baddr, bresp, pushes>>
regVars == <<peersLock, ipc, ireq, isrc>>
vars == <<peers, raft, store, nodeLock, tickVars, rpcVars, bootVars, calls, joined, regVars>>

\* ------------------------------------------------------------ raft library
\* The calls coordinator.rs makes on raft::RawNode and MemStorage.  The
\* library decides what a tick or a message does to the state machine; the
\* model keeps the hard state (term, vote, commit) and whether a Ready is
\* pending, and draws the rest from the sets below.

HardState(r) == [term |-> r.term, vote |-> r.vote, commit |-> r.commit]

\* RawNode::new over MemStorage::new_with_conf_state, then apply_conf_change
\* with one AddNode per id 1 ..= world_size.
NewRaft == [term |-> 0, vote |-> 0, commit |-> 0, pending |-> FALSE,
            voters |-> {Id(r) : r \in 0 .. (WorldSize - 1)}]
NewStore == [snap |-> 0, log |-> 0, hs |-> [term |-> 0, vote |-> 0, commit |-> 0]]

\* raft::eraftpb::Message, as far as the coordinator reads it (`to`), plus
\* what step looks at.
Msg(to, from, term, commit) ==
    [to |-> to, from |-> from, term |-> term, commit |-> commit]

\* Message::write_to_bytes / Message::parse_from_bytes: the fields in wire
\* order behind a length tag.  Bytes that are not of this shape do not parse.
WriteToBytes(m) == <<4, m.to, m.from, m.term, m.commit>>
WellFormed(b) == Len(b) > 0 /\ Len(b) = b[1] + 1
ParseFromBytes(b) == Msg(b[2], b[3], b[4], b[5])

\* node.tick(): the logical clock moves; an election timeout starts a
\* campaign (term + 1, vote for self) and leaves a Ready pending.
NodeTick(r, id) ==
    {r, [r EXCEPT !.term = r.term + 1, !.vote = id, !.pending = TRUE]}

\* node.has_ready()
HasReady(r) == r.pending

\* node.step(message): RawNode::step refuses a message from an id outside
\* the configuration (StepPeerNotFound) before it touches the state; any
\* other message is stepped.
StepRejects(r, m) == m.from \notin r.voters
StepAccept(r, m) ==
    IF m.term > r.term
    THEN [r EXCEPT !.term = m.term, !.vote = 0,
                   !.commit = IF m.commit > r.commit THEN m.commit ELSE r.commit,
                   !.pending = TRUE]
    ELSE IF m.term = r.term
    THEN [r EXCEPT !.commit = IF m.commit > r.commit THEN m.commit ELSE r.commit,
                   !.pending = TRUE]
    ELSE r
Step(r, m) ==
    IF StepRejects(r, m) THEN [ok |-> FALSE, raft |-> r]
    ELSE [ok |-> TRUE, raft |-> StepAccept(r, m)]

\* The messages one field of a Ready can hold: the messages of node n to the
\* other participants.
OutMsg(n, d) == Msg(Id(d), Id(n), raft[n].term, raft[n].commit)
RECURSIVE SeqsUpTo(_, _)
SeqsUpTo(S, k) ==
    IF k = 0 THEN {<<>>}
    ELSE LET shorter == SeqsUpTo(S, k - 1)
         IN shorter \cup {Append(q, x) : q \in shorter, x \in S}
MsgSeqs(n, k) == SeqsUpTo({OutMsg(n, d) : d \in Nodes \ {n}}, k)

\* node.ready(): the bundle of one tick.  hs is Some exactly when the hard
\* state differs from the one persisted.
Readys(n) ==
    {rd \in [msgs : MsgSeqs(n, MaxBatch), snap : BOOLEAN, ents : BOOLEAN,
             hs : {HardState(raft[n]) # store[n].hs}, pmsgs : MsgSeqs(n, MaxBatch)] :
        Len(rd.msgs) + Len(rd.pmsgs) <= MaxBatch}
NoReady == [msgs |-> <<>>, snap |-> FALSE, ents |-> FALSE, hs |-> FALSE, pmsgs |-> <<>>]

\* ------------------------------------------------------------------- Init
\* The registries once the nodes of K have discovered each other (each has
\* bootstrapped from another and has served the others' Info requests): a
\* node of K holds the others of K at their own addresses, a node outside K
\* holds nothing, as after Coordinator::new.
Discovered(K) ==
    [n \in Nodes |-> IF n \in K THEN [r \in K \ {n} |-> SelfInfo(r)] ELSE << >>]

\* The raft nodes and the serving side as Coordinator::new leaves them, with
\* no tick loop or request under way.
IdleServing ==
    /\ raft = [n \in Nodes |-> NewRaft]
    /\ store = [n \in Nodes |-> NewStore]
    /\ nodeLock = [n \in Nodes |-> "free"]
    /\ tpc = [n \in Nodes |-> "sleep"]
    /\ ready = [n \in Nodes |-> NoReady]
    /\ messages = [n \in Nodes |-> <<>>]
    /\ midx = [n \in Nodes |-> 1]
    /\ addr = [n \in Nodes |-> ""]
    /\ trace = [n \in Nodes |-> <<>>]
    /\ outcome = [n \in Nodes |-> <<>>]
    /\ hpc = [n \in Nodes |-> "idle"]
    /\ hreq = [n \in Nodes |-> <<>>]
    /\ hsrc = [n \in Nodes |-> "env"]
    /\ hres = [n \in Nodes |-> "none"]
    /\ calls = 0
    /\ peersLock = [n \in Nodes |-> "free"]
    /\ ipc = [n \in Nodes |-> "idle"]
    /\ ireq = [n \in Nodes |-> NoRequester]
    /\ isrc = [n \in Nodes |-> "env"]

\* No bootstrap under way.
Idle ==
    /\ IdleServing
    /\ bpc = [n \in Nodes |-> "idle"]
    /\ addresses = [n \in Nodes |-> <<>>]
    /\ baddr = [n \in Nodes |-> ""]
    /\ bresp = [n \in Nodes |-> <<>>]
    /\ pushes = [n \in Nodes |-> [r \in Ranks |-> 0]]

\* The state after Coordinator::new on every node, with the nodes of the
\* ranks below k (none, two or more, or all: nodes join in the order of
\* their ranks) having discovered each other already.
Init ==
    /\ \E k \in (0 .. WorldSize) \ {1} : joined = 0 .. (k - 1)
    /\ peers = Discovered(joined)
    /\ Idle

\* ------------------------------------------------------------- tick loop
\* Coordinator::run calls tick, sleeps 100 ms and calls it again; an Err of
\* tick leaves the loop (tpc = "halted", then "exited").

\* One tick cycle at a time: the cycles of different nodes follow each other
\* in this model; a cycle still runs beside every handler and bootstrap.
NoCycle(n) == \A o \in Nodes \ {n} : tpc[o] \in {"sleep", "exited"}

\* tick, line 94: self.node.lock().await
TickLock(n) ==
    /\ tpc[n] = "sleep"
    /\ NoCycle(n)
    /\ calls < MaxCalls
    /\ nodeLock[n] = "free"
    /\ nodeLock' = [nodeLock EXCEPT ![n] = "tick"]
    /\ tpc' = [tpc EXCEPT ![n] = "locked"]
    /\ calls' = calls + 1
    /\ messages' = [messages EXCEPT ![n] = <<>>]
    /\ trace' = [trace EXCEPT ![n] = <<>>]
    /\ outcome' = [outcome EXCEPT ![n] = <<>>]
    /\ midx' = [midx EXCEPT ![n] = 1]
    /\ ready' = [ready EXCEPT ![n] = NoReady]
    /\ UNCHANGED <<peers, raft, store, addr, rpcVars, bootVars, joined, regVars>>

\* A tick that reads the Ready without asking has_ready.
TickNodeAlwaysReads(n) ==
    /\ tpc[n] = "locked"
    /\ \E r \in NodeTick(raft[n], Id(n)) : raft' = [raft EXCEPT ![n] = r]
    /\ tpc' = [tpc EXCEPT ![n] = "ready"]
    /\ trace' = [trace EXCEPT ![n] = Append(@, "tick")]
    /\ UNCHANGED <<peers, store, nodeLock, ready, messages, midx, addr, outcome,
                   rpcVars, bootVars, calls, joined, regVars>>

\* tick, lines 95-99: node.tick(); without a Ready the cycle ends here and
\* the lock guard is dropped.
TickNode(n) ==
    /\ tpc[n] = "locked"
    /\ \E r \in NodeTick(raft[n], Id(n)) :
        /\ raft' = [raft EXCEPT ![n] = r]
        /\ IF HasReady(r)
           THEN /\ tpc' = [tpc EXCEPT ![n] = "ready"]
                /\ trace' = [trace EXCEPT ![n] = Append(@, "tick")]
                /\ UNCHANGED nodeLock
           ELSE /\ tpc' = [tpc EXCEPT ![n] = "sleep"]
                /\ trace' = [trace EXCEPT ![n] = <<>>]
                /\ nodeLock' = [nodeLock EXCEPT ![n] = "free"]
    /\ UNCHANGED <<peers, store, ready, messages, midx, addr, outcome, rpcVars, bootVars, calls, joined, regVars>>

\* TickReady with the dispatch moved up: the messages of the Ready are
\* handed to handle_messages as soon as they are collected, before the
\* snapshot, the entries and the hard state are written.
TickReadyDispatchesFirst(n) ==
    /\ tpc[n] = "ready"
    /\ \E rd \in Readys(n) :
        /\ ready' = [ready EXCEPT ![n] = [rd EXCEPT !.msgs = <<>>, !.pmsgs = <<>>]]
        /\ messages' = [messages EXCEPT ![n] = @ \o rd.msgs \o rd.pmsgs]
    /\ trace' = [trace EXCEPT ![n] = Append(@, "messages")]
    /\ tpc' = [tpc EXCEPT ![n] = "dispatch"]
    /\ nodeLock' = [nodeLock EXCEPT ![n] = "free"]
    /\ raft' = [raft EXCEPT ![n].pending = FALSE]
    /\ UNCHANGED <<peers, store, midx, addr, outcome, rpcVars, bootVars, calls, joined, regVars>>

\* tick, lines 100-106: node.ready(), and the messages that need no
\* persistence are taken into `messages`.
TickReady(n) ==
    /\ tpc[n] = "ready"
    /\ \E rd \in Readys(n) :
        /\ ready' = [ready EXCEPT ![n] = [rd EXCEPT !.msgs = <<>>]]
        /\ messages' = [messages EXCEPT ![n] = @ \o rd.msgs]
    /\ trace' = [trace EXCEPT ![n] = Append(@, "messages")]
    /\ tpc' = [tpc EXCEPT ![n] = "snapshot"]
    /\ UNCHANGED <<peers, raft, store, nodeLock, midx, addr, outcome, rpcVars, bootVars, calls, joined, regVars>>

\* tick, lines 112-117: apply_snapshot(...)?; MemStorage refuses a snapshot
\* that is out of date, and the ? returns the error from tick.
TickSnapshot(n) ==
    /\ tpc[n] = "snapshot"
    /\ \/ /\ ~ready[n].snap
          /\ tpc' = [tpc EXCEPT ![n] = "entries"]
          /\ UNCHANGED <<store, nodeLock, trace>>
       \/ /\ ready[n].snap
          /\ store' = [store EXCEPT ![n].snap = @ + 1]
          /\ trace' = [trace EXCEPT ![n] = Append(@, "apply_snapshot")]
          /\ tpc' = [tpc EXCEPT ![n] = "entries"]
          /\ UNCHANGED nodeLock
       \/ /\ ready[n].snap
          /\ trace' = [trace EXCEPT ![n] = Append(@, "apply_snapshot_err")]
          /\ tpc' = [tpc EXCEPT ![n] = "halted"]
          /\ nodeLock' = [nodeLock EXCEPT ![n] = "free"]
          /\ UNCHANGED store
    /\ UNCHANGED <<peers, raft, ready, messages, midx, addr, outcome, rpcVars, bootVars, calls, joined, regVars>>

\* tick, lines 129-132: append(ready.entries())
TickEntries(n) ==
    /\ tpc[n] = "entries"
    /\ IF ready[n].ents
       THEN /\ store' = [store EXCEPT ![n].log = @ + 1]
            /\ trace' = [trace EXCEPT ![n] = Append(@, "append")]
       ELSE UNCHANGED <<store, trace>>
    /\ tpc' = [tpc EXCEPT ![n] = "hardstate"]
    /\ UNCHANGED <<peers, raft, nodeLock, ready, messages, midx, addr, outcome, rpcVars, bootVars, calls, joined, regVars>>

\* A tick that goes past the hard state without writing it.
TickHardStateSkipped(n) ==
    /\ tpc[n] = "hardstate"
    /\ tpc' = [tpc EXCEPT ![n] = "persisted"]
    /\ UNCHANGED <<peers, raft, store, nodeLock, ready, messages, midx, addr, trace,
                   outcome, rpcVars, bootVars, calls, joined, regVars>>

\* tick, lines 139-142: set_hardstate(hs)
TickHardState(n) ==
    /\ tpc[n] = "hardstate"
    /\ IF ready[n].hs
       THEN /\ store' = [store EXCEPT ![n].hs = HardState(raft[n])]
            /\ trace' = [trace EXCEPT ![n] = Append(@, "set_hardstate")]
       ELSE UNCHANGED <<store, trace>>
    /\ tpc' = [tpc EXCEPT ![n] = "persisted"]
    /\ UNCHANGED <<peers, raft, nodeLock, ready, messages, midx, addr, outcome, rpcVars, bootVars, calls, joined, regVars>>

\* tick, lines 148-150: the messages to send after persisting are taken.
TickPersisted(n) ==
    /\ tpc[n] = "persisted"
    /\ messages' = [messages EXCEPT ![n] = @ \o ready[n].pmsgs]
    /\ ready' = [ready EXCEPT ![n].pmsgs = <<>>]
    /\ trace' = [trace EXCEPT ![n] = Append(@, "persisted_messages")]
    /\ tpc' = [tpc EXCEPT ![n] = "advance"]
    /\ UNCHANGED <<peers, raft, store, nodeLock, midx, addr, outcome, rpcVars, bootVars, calls, joined, regVars>>

\* tick, lines 157-159: node.advance(ready) and the messages of the light
\* ready.
TickAdvance(n) ==
    /\ tpc[n] = "advance"
    /\ \E lm \in MsgSeqs(n, MaxBatch - Len(messages[n])) :
        messages' = [messages EXCEPT ![n] = @ \o lm]
    /\ raft' = [raft EXCEPT ![n].pending = FALSE]
    /\ trace' = [trace EXCEPT ![n] = Append(@, "advance")]
    /\ tpc' = [tpc EXCEPT ![n] = "advance_apply"]
    /\ UNCHANGED <<peers, store, nodeLock, ready, midx, addr, outcome, rpcVars, bootVars, calls, joined, regVars>>

\* A tick whose lock guard lives to the end of the function: the driver
\* lock is still held when handle_messages is called.
TickAdvanceApplyKeepsLock(n) ==
    /\ tpc[n] = "advance_apply"
    /\ trace' = [trace EXCEPT ![n] = Append(@, "advance_apply")]
    /\ tpc' = [tpc EXCEPT ![n] = "dispatch"]
    /\ midx' = [midx EXCEPT ![n] = 1]
    /\ UNCHANGED <<peers, raft, store, nodeLock, ready, messages, addr, outcome,
                   rpcVars, bootVars, calls, joined, regVars>>

\* tick, lines 161-162: node.advance_apply(), and the block ends: the lock
\* guard is dropped before handle_messages is called.
TickAdvanceApply(n) ==
    /\ tpc[n] = "advance_apply"
    /\ trace' = [trace EXCEPT ![n] = Append(@, "advance_apply")]
    /\ nodeLock' = [nodeLock EXCEPT ![n] = "free"]
    /\ tpc' = [tpc EXCEPT ![n] = "dispatch"]
    /\ midx' = [midx EXCEPT ![n] = 1]
    /\ UNCHANGED <<peers, raft, store, ready, messages, addr, outcome, rpcVars, bootVars, calls, joined, regVars>>

\* ------------------------------------------------------- handle_messages
\* The batch is walked in order; midx is the message the for loop is at.

\* The id taken for the rank, without the offset.
DestRankNoOffset(n) == messages[n][midx[n]].to

\* handle_messages line 183: the rank of the peer is message.to - 1.
DestRank(n) == messages[n][midx[n]].to - 1

\* The for loop has a message to handle.
Dispatching(n) == tpc[n] = "dispatch" /\ midx[n] <= Len(messages[n])

\* DispatchUnknown with the Err of get_client returned (a ? in place of the
\* continue): the batch is abandoned at the unknown rank.
DispatchUnknownFatal(n) ==
    /\ Dispatching(n)
    /\ DestRank(n) \notin DOMAIN peers[n]
    /\ outcome' = [outcome EXCEPT ![n] = Append(@, "unknown_peer")]
    /\ tpc' = [tpc EXCEPT ![n] = "halted"]
    /\ UNCHANGED <<peers, raft, store, nodeLock, midx, ready, messages, addr, trace,
                   rpcVars, bootVars, calls, joined, regVars>>

\* handle_messages lines 184-192 with get_client lines 170-174: a rank the
\* registry does not hold is an Err of get_client, which is logged and
\* skipped.
DispatchUnknown(n) ==
    /\ Dispatching(n)
    /\ DestRank(n) \notin DOMAIN peers[n]
    /\ outcome' = [outcome EXCEPT ![n] = Append(@, "unknown_peer")]
    /\ midx' = [midx EXCEPT ![n] = @ + 1]
    /\ UNCHANGED <<peers, raft, store, nodeLock, tpc, ready, messages, addr, trace,
                   rpcVars, bootVars, calls, joined, regVars>>

\* get_client lines 175-178: the address is read from the registry and
\* new_coordinator_client fails (nobody listens, or the connect times out);
\* handle_messages logs it and goes on.
DispatchConnectFail(n) ==
    /\ Dispatching(n)
    /\ DestRank(n) \in DOMAIN peers[n]
    /\ addr' = [addr EXCEPT ![n] = peers[n][DestRank(n)].address]
    /\ outcome' = [outcome EXCEPT ![n] = Append(@, "connect_failed")]
    /\ midx' = [midx EXCEPT ![n] = @ + 1]
    /\ UNCHANGED <<peers, raft, store, nodeLock, tpc, ready, messages, trace,
                   rpcVars, bootVars, calls, joined, regVars>>

\* get_client lines 175-178 and handle_messages lines 194-198: the
\* connection stands and the request reaches the raft_message handler of the
\* node at the address; the caller awaits the reply.
DispatchSend(n) ==
    /\ Dispatching(n)
    /\ DestRank(n) \in DOMAIN peers[n]
    /\ LET a == peers[n][DestRank(n)].address
       IN /\ Listening(a)
          /\ hpc[NodeAt(a)] = "idle"
          /\ addr' = [addr EXCEPT ![n] = a]
          /\ hpc' = [hpc EXCEPT ![NodeAt(a)] = "recv"]
          /\ hreq' = [hreq EXCEPT ![NodeAt(a)] = WriteToBytes(messages[n][midx[n]])]
          /\ hsrc' = [hsrc EXCEPT ![NodeAt(a)] = LocalAddr(n)]
          /\ hres' = [hres EXCEPT ![NodeAt(a)] = "none"]
    /\ trace' = [trace EXCEPT ![n] = Append(@, "send")]
    /\ tpc' = [tpc EXCEPT ![n] = "await"]
    /\ UNCHANGED <<peers, raft, store, nodeLock, ready, messages, midx, outcome,
                   bootVars, calls, joined, regVars>>

\* handle_messages line 198: the call fails in the transport (the stream is
\* reset, the peer goes away); the ? returns the error from handle_messages,
\* tick returns it and run ends.
DispatchRpcFail(n) ==
    /\ Dispatching(n)
    /\ DestRank(n) \in DOMAIN peers[n]
    /\ Listening(peers[n][DestRank(n)].address)
    /\ addr' = [addr EXCEPT ![n] = peers[n][DestRank(n)].address]
    /\ trace' = [trace EXCEPT ![n] = Append(@, "send")]
    /\ outcome' = [outcome EXCEPT ![n] = Append(@, "rpc_failed")]
    /\ tpc' = [tpc EXCEPT ![n] = "halted"]
    /\ UNCHANGED <<peers, raft, store, nodeLock, ready, messages, midx,
                   rpcVars, bootVars, calls, joined, regVars>>

\* handle_messages line 198: the reply arrives.  Ok goes on to the next
\* message; a Status (the peer's parse or step failed) leaves through the ?.
DispatchReply(n) ==
    /\ tpc[n] = "await"
    /\ LET m == NodeAt(addr[n])
       IN /\ hpc[m] = "replied"
          /\ hsrc[m] = LocalAddr(n)
          /\ hpc' = [hpc EXCEPT ![m] = "idle"]
          /\ hsrc' = [hsrc EXCEPT ![m] = "env"]
          /\ IF hres[m] = "ok"
             THEN /\ outcome' = [outcome EXCEPT ![n] = Append(@, "delivered")]
                  /\ midx' = [midx EXCEPT ![n] = @ + 1]
                  /\ tpc' = [tpc EXCEPT ![n] = "dispatch"]
             ELSE /\ outcome' = [outcome EXCEPT ![n] = Append(@, "rpc_failed")]
                  /\ tpc' = [tpc EXCEPT ![n] = "halted"]
                  /\ UNCHANGED midx
    /\ UNCHANGED <<peers, raft, store, nodeLock, ready, messages, addr, trace,
                   hreq, hres, bootVars, calls, joined, regVars>>

\* handle_messages line 201, tick line 166, run line 86: the batch is done,
\* tick returns Ok, its locals are dropped and the loop sleeps until the next
\* tick.
DispatchDone(n) ==
    /\ tpc[n] = "dispatch"
    /\ midx[n] > Len(messages[n])
    /\ tpc' = [tpc EXCEPT ![n] = "sleep"]
    /\ messages' = [messages EXCEPT ![n] = <<>>]
    /\ midx' = [midx EXCEPT ![n] = 1]
    /\ addr' = [addr EXCEPT ![n] = ""]
    /\ ready' = [ready EXCEPT ![n] = NoReady]
    /\ trace' = [trace EXCEPT ![n] = <<>>]
    /\ outcome' = [outcome EXCEPT ![n] = <<>>]
    /\ UNCHANGED <<peers, raft, store, nodeLock, rpcVars, bootVars, calls, joined, regVars>>

\* run line 83: tick returned an Err, the ? returns it from run: the loop is
\* over and the locals of tick are dropped.
RunExit(n) ==
    /\ tpc[n] = "halted"
    /\ tpc' = [tpc EXCEPT ![n] = "exited"]
    /\ messages' = [messages EXCEPT ![n] = <<>>]
    /\ midx' = [midx EXCEPT ![n] = 1]
    /\ addr' = [addr EXCEPT ![n] = ""]
    /\ ready' = [ready EXCEPT ![n] = NoReady]
    /\ trace' = [trace EXCEPT ![n] = <<>>]
    /\ outcome' = [outcome EXCEPT ![n] = <<>>]
    /\ UNCHANGED <<peers, raft, store, nodeLock, rpcVars, bootVars, calls, joined, regVars>>

\* ------------------------------------------------ CoordinatorService::raft_message
\* Request bytes an RPC client can send to node m: a message for m from the
\* next participant or from a stranger (an id outside the cluster), of a
\* term around that of m (stale, current, newer) and a commit index one past
\* that of m, and bytes cut short, which are no message.
EnvBytes(m) ==
    {WriteToBytes(Msg(Id(m), f, t, raft[m].commit + 1)) :
        f \in {Id((m + 1) % WorldSize), WorldSize + 1},
        t \in {raft[m].term - 1, raft[m].term, raft[m].term + 1} \ {-1}}
    \cup {<<4, Id(m)>>}

\* A request of the environment arrives at node m.
RaftMessageRecv(m) ==
    /\ hpc[m] = "idle"
    /\ calls < MaxCalls
    /\ \E b \in EnvBytes(m) : hreq' = [hreq EXCEPT ![m] = b]
    /\ hsrc' = [hsrc EXCEPT ![m] = "env"]
    /\ hres' = [hres EXCEPT ![m] = "none"]
    /\ hpc' = [hpc EXCEPT ![m] = "recv"]
    /\ calls' = calls + 1
    /\ UNCHANGED <<peers, raft, store, nodeLock, tickVars, bootVars, joined, regVars>>

\* Where the handler is once it has replied: a request of the environment
\* is over, a request of a dispatching node waits for DispatchReply.  The
\* request is dropped either way.
Replied(m) == IF hsrc[m] = "env" THEN "idle" ELSE "replied"

\* raft_message lines 262-263: parse_from_bytes; a parse error is returned
\* as Status::internal.
RaftMessageParse(m) ==
    /\ hpc[m] = "recv"
    /\ IF WellFormed(hreq[m])
       THEN /\ hpc' = [hpc EXCEPT ![m] = "lock"]
            /\ UNCHANGED hres
            /\ UNCHANGED hreq
       ELSE /\ hpc' = [hpc EXCEPT ![m] = Replied(m)]
            /\ hres' = [hres EXCEPT ![m] = "internal: failed to parse message"]
            /\ hreq' = [hreq EXCEPT ![m] = <<>>]
    /\ UNCHANGED <<peers, raft, store, nodeLock, tickVars, hsrc, bootVars, calls, joined, regVars>>

\* A handler that steps without waiting for the driver lock.
RaftMessageLockBarges(m) ==
    /\ hpc[m] = "lock"
    /\ nodeLock' = [nodeLock EXCEPT ![m] = "rpc"]
    /\ hpc' = [hpc EXCEPT ![m] = "step"]
    /\ UNCHANGED <<peers, raft, store, tickVars, hreq, hsrc, hres, bootVars, calls, joined, regVars>>

\* raft_message line 265: self.node.lock().await
RaftMessageLock(m) ==
    /\ hpc[m] = "lock"
    /\ nodeLock[m] = "free"
    /\ nodeLock' = [nodeLock EXCEPT ![m] = "rpc"]
    /\ hpc' = [hpc EXCEPT ![m] = "step"]
    /\ UNCHANGED <<peers, raft, store, tickVars, hreq, hsrc, hres, bootVars, calls, joined, regVars>>

\* RaftMessageStep with the result of step thrown away (let _ = ...): the
\* caller is told Ok whatever step said.
RaftMessageStepSwallows(m) ==
    /\ hpc[m] = "step"
    /\ raft' = [raft EXCEPT ![m] = Step(raft[m], ParseFromBytes(hreq[m])).raft]
    /\ hres' = [hres EXCEPT ![m] = "ok"]
    /\ nodeLock' = [nodeLock EXCEPT ![m] = "free"]
    /\ hpc' = [hpc EXCEPT ![m] = Replied(m)]
    /\ hreq' = [hreq EXCEPT ![m] = <<>>]
    /\ UNCHANGED <<peers, store, tickVars, hsrc, bootVars, calls, joined, regVars>>

\* raft_message lines 266-269: node.step(message); an Err is returned as
\* Status::internal; either way the guard is dropped on return.
RaftMessageStep(m) ==
    /\ hpc[m] = "step"
    /\ LET res == Step(raft[m], ParseFromBytes(hreq[m]))
       IN /\ raft' = [raft EXCEPT ![m] = res.raft]
          /\ hres' = [hres EXCEPT ![m] =
                        IF res.ok THEN "ok"
                        ELSE "internal: failed to step state machine"]
    /\ nodeLock' = [nodeLock EXCEPT ![m] = "free"]
    /\ hpc' = [hpc EXCEPT ![m] = Replied(m)]
    /\ hreq' = [hreq EXCEPT ![m] = <<>>]
    /\ UNCHANGED <<peers, store, tickVars, hsrc, bootVars, calls, joined, regVars>>

\* ------------------------------------------------------ the Peer Registry
\* HashMap::insert: the entry of the rank is set, whatever it was.
Insert(p, info) ==
    [r \in DOMAIN p \cup {info.rank} |-> IF r = info.rank THEN info ELSE p[r]]

\* peers.values().cloned().collect(): the values in the order the HashMap
\* iterates, which is any order.
ValueOrders(p) ==
    {q \in [1 .. Cardinality(DOMAIN p) -> {p[r] : r \in DOMAIN p}] :
        \A r \in DOMAIN p : \E i \in DOMAIN q : q[i] = p[r]}

\* A registry that is rebuilt from the requester alone.
InfoPeersReset(m, requester) == Insert(<< >>, requester)

\* A handler that answers without recording the requester.
InfoPeersForgets(m, requester) == peers[m]

\* info lines 275-284: the requester is inserted and the reply is the
\* registry's values followed by this node's own NodeInfo.
InfoPeers(m, requester) == Insert(peers[m], requester)
InfoReplies(m, requester) ==
    {Append(q, SelfInfo(m)) : q \in ValueOrders(InfoPeers(m, requester))}

\* CoordinatorService::info, called by any RPC client: the requester is
\* whatever the request says, any rank (this node's own too) with the
\* address of that rank's node or an address nobody listens on.
Info(m) ==
    /\ calls < MaxCalls
    /\ \E r \in Ranks : \E a \in {LocalAddr(r), DeadAddr} :
        peers' = [peers EXCEPT ![m] = InfoPeers(m, NodeInfo(r, a))]
    /\ calls' = calls + 1
    /\ UNCHANGED <<raft, store, nodeLock, tickVars, rpcVars, bootVars, joined, regVars>>

\* -------------------------------------------------------------- bootstrap
\* The seed lists bootstrap is called with: addresses and empty strings.
SeedLists == SeqsUpTo(Addrs \cup {""}, MaxSeeds)

\* bootstrap line 212: the work-list starts as the seeds.
BootstrapStart(n) ==
    /\ bpc[n] \in {"idle", "done", "failed"}
    /\ calls < MaxCalls
    /\ \E seeds \in SeedLists : addresses' = [addresses EXCEPT ![n] = seeds]
    /\ bpc' = [bpc EXCEPT ![n] = "loop"]
    /\ pushes' = [pushes EXCEPT ![n] = [r \in Ranks |-> 0]]
    /\ calls' = calls + 1
    /\ UNCHANGED <<peers, raft, store, nodeLock, tickVars, rpcVars, baddr, bresp, joined, regVars>>

\* bootstrap lines 214-218 and 250: the loop ends on an empty work-list;
\* else the last address is popped, and an empty string is skipped.
BootstrapPop(n) ==
    /\ bpc[n] = "loop"
    /\ IF Len(addresses[n]) = 0
       THEN /\ bpc' = [bpc EXCEPT ![n] = "done"]
            /\ UNCHANGED <<addresses, baddr>>
       ELSE LET a == addresses[n][Len(addresses[n])]
            IN /\ addresses' = [addresses EXCEPT ![n] = SubSeq(@, 1, Len(@) - 1)]
               /\ IF a = ""
                  THEN UNCHANGED <<bpc, baddr>>
                  ELSE /\ baddr' = [baddr EXCEPT ![n] = a]
                       /\ bpc' = [bpc EXCEPT ![n] = "connect"]
    /\ UNCHANGED <<peers, raft, store, nodeLock, tickVars, rpcVars, bresp, pushes, calls, joined, regVars>>

\* A probe failure that is logged and skipped: the loop goes on with the
\* rest of the work-list.
BootstrapFailSkips(n) ==
    /\ bpc[n] = "connect"
    /\ bpc' = [bpc EXCEPT ![n] = "loop"]
    /\ UNCHANGED <<peers, raft, store, nodeLock, tickVars, rpcVars, addresses, baddr,
                   bresp, pushes, calls, joined, regVars>>

\* bootstrap lines 222 and 228: new_coordinator_client(...)? or
\* client.info(...)? fails, and bootstrap returns the error.
BootstrapFail(n) ==
    /\ bpc[n] = "connect"
    /\ bpc' = [bpc EXCEPT ![n] = "failed"]
    /\ UNCHANGED <<peers, raft, store, nodeLock, tickVars, rpcVars, addresses, baddr,
                   bresp, pushes, calls, joined, regVars>>

\* bootstrap lines 222-230: the node at the address serves the Info request
\* (info, lines 272-287) with this node as the requester.
BootstrapInfo(n) ==
    /\ bpc[n] = "connect"
    /\ Listening(baddr[n])
    /\ LET m == NodeAt(baddr[n])
       IN /\ peers' = [peers EXCEPT ![m] = InfoPeers(m, SelfInfo(n))]
          /\ \E reply \in InfoReplies(m, SelfInfo(n)) :
                bresp' = [bresp EXCEPT ![n] = reply]
    /\ bpc' = [bpc EXCEPT ![n] = "merge"]
    /\ UNCHANGED <<raft, store, nodeLock, tickVars, rpcVars, addresses, baddr, pushes, calls, joined, regVars>>

\* A merge that does not skip the entry of this node's own rank.
RECURSIVE MergePeersKeepsSelf(_, _, _, _, _)
MergePeersKeepsSelf(st, reply, i, self, queried) ==
    IF i > Len(reply) THEN st
    ELSE LET peer == reply[i]
         IN IF peer.rank \in DOMAIN st.peers
            THEN MergePeersKeepsSelf(st, reply, i + 1, self, queried)
            ELSE MergePeersKeepsSelf(
                    [peers |-> Insert(st.peers, peer),
                     addresses |-> IF queried # peer.address
                                   THEN Append(st.addresses, peer.address)
                                   ELSE st.addresses,
                     pushes |-> IF queried # peer.address
                                THEN [st.pushes EXCEPT ![peer.rank] = @ + 1]
                                ELSE st.pushes],
                    reply, i + 1, self, queried)

\* A merge that pushes the address of every entry of another rank, whether
\* the registry held the rank or not.
RECURSIVE MergePeersPushesKnown(_, _, _, _, _)
MergePeersPushesKnown(st, reply, i, self, queried) ==
    IF i > Len(reply) THEN st
    ELSE LET peer == reply[i]
         IN IF peer.rank = self
            THEN MergePeersPushesKnown(st, reply, i + 1, self, queried)
            ELSE MergePeersPushesKnown(
                    [peers |-> IF peer.rank \in DOMAIN st.peers THEN st.peers
                               ELSE Insert(st.peers, peer),
                     addresses |-> IF queried # peer.address
                                   THEN Append(st.addresses, peer.address)
                                   ELSE st.addresses,
                     pushes |-> IF queried # peer.address
                                THEN [st.pushes EXCEPT ![peer.rank] = @ + 1]
                                ELSE st.pushes],
                    reply, i + 1, self, queried)

\* bootstrap lines 236-247: the for loop over the reply, from entry i on.
\* st is [peers, addresses, pushes].
RECURSIVE MergePeers(_, _, _, _, _)
MergePeers(st, reply, i, self, queried) ==
    IF i > Len(reply) THEN st
    ELSE LET peer == reply[i]
         IN IF peer.rank = self \/ peer.rank \in DOMAIN st.peers
            THEN MergePeers(st, reply, i + 1, self, queried)
            ELSE MergePeers(
                    [peers |-> Insert(st.peers, peer),
                     addresses |-> IF queried # peer.address
                                   THEN Append(st.addresses, peer.address)
                                   ELSE st.addresses,
                     pushes |-> IF queried # peer.address
                                THEN [st.pushes EXCEPT ![peer.rank] = @ + 1]
                                ELSE st.pushes],
                    reply, i + 1, self, queried)

\* bootstrap lines 234-248: under the registry lock the reply is merged,
\* and the loop goes round.
BootstrapMerge(n) ==
    /\ bpc[n] = "merge"
    /\ LET st == MergePeers([peers |-> peers[n], addresses |-> addresses[n],
                             pushes |-> pushes[n]],
                            bresp[n], 1, n, baddr[n])
       IN /\ peers' = [peers EXCEPT ![n] = st.peers]
          /\ addresses' = [addresses EXCEPT ![n] = st.addresses]
          /\ pushes' = [pushes EXCEPT ![n] = st.pushes]
    /\ bresp' = [bresp EXCEPT ![n] = <<>>]
    /\ bpc' = [bpc EXCEPT ![n] = "loop"]
    /\ UNCHANGED <<raft, store, nodeLock, tickVars, rpcVars, baddr, calls, joined, regVars>>

\* ------------------------------------------------------------------- Next
NextTick ==
    \E n \in Nodes :
        \/ TickLock(n) \/ TickNode(n) \/ TickReady(n) \/ TickSnapshot(n)
        \/ TickEntries(n) \/ TickHardState(n) \/ TickPersisted(n)
        \/ TickAdvance(n) \/ TickAdvanceApply(n)
        \/ DispatchUnknown(n) \/ DispatchConnectFail(n) \/ DispatchSend(n)
        \/ DispatchRpcFail(n) \/ DispatchReply(n) \/ DispatchDone(n)
        \/ RunExit(n)

NextService ==
    \E m \in Nodes :
        \/ RaftMessageRecv(m) \/ RaftMessageParse(m) \/ RaftMessageLock(m)
        \/ RaftMessageStep(m) \/ Info(m)

NextBootstrap ==
    \E n \in Nodes :
        \/ BootstrapStart(n) \/ BootstrapPop(n) \/ BootstrapFail(n)
        \/ BootstrapInfo(n) \/ BootstrapMerge(n)

Next == NextTick \/ NextService \/ NextBootstrap

Spec == Init /\ [][Next]_vars

\* The consensus side alone: tick loops, dispatch and the two handlers.
NextRaft == NextTick \/ NextService
SpecRaft == Init /\ [][NextRaft]_vars

\* The discovery side alone: bootstraps and Info requests.
NextDiscovery == NextBootstrap \/ (\E m \in Nodes : Info(m))
SpecDiscovery == Init /\ [][NextDiscovery]_vars

\* A bootstrap that has been called runs on: the task is scheduled until it
\* returns.  Calls from outside (a new bootstrap, an Info request) may or
\* may not come.
BootstrapStep(n) ==
    BootstrapPop(n) \/ BootstrapFail(n) \/ BootstrapInfo(n) \/ BootstrapMerge(n)
SpecDiscoveryFair ==
    SpecDiscovery /\ \A n \in Nodes : WF_vars(BootstrapStep(n))

\* One new node joining a set of seeds that know each other: the seeds are
\* any non-empty set of nodes, the new node is any other node, and its seed
\* list holds the address of one seed (and empty strings).  Nothing else
\* calls in.
SingleSeedLists(s) ==
    {sl \in SeedLists :
        /\ \E i \in DOMAIN sl : sl[i] = LocalAddr(s)
        /\ \A i \in DOMAIN sl : sl[i] \in {LocalAddr(s), ""}
        /\ \A i, j \in DOMAIN sl : sl[i] = sl[j] /\ sl[i] # "" => i = j}
InitConv ==
    /\ joined \in (SUBSET Nodes) \ {{}, Nodes}
    /\ peers = Discovered(joined)
    /\ IdleServing
    /\ \E n \in Nodes \ joined : \E s \in joined : \E sl \in SingleSeedLists(s) :
          /\ bpc = [x \in Nodes |-> IF x = n THEN "loop" ELSE "idle"]
          /\ addresses = [x \in Nodes |-> IF x = n THEN sl ELSE <<>>]
    /\ baddr = [n \in Nodes |-> ""]
    /\ bresp = [n \in Nodes |-> <<>>]
    /\ pushes = [n \in Nodes |-> [r \in Ranks |-> 0]]
NextConv == \E n \in Nodes : BootstrapStep(n)
SpecConv == InitConv /\ [][NextConv]_vars /\ WF_vars(NextConv)

\* ------------------------------------------------- the two locks, step by step
\* The same code with every acquisition of the registry lock (peers.lock())
\* a step of its own, and every RPC a call and a reply, so that a task can
\* be seen to hold a lock and to wait for one.

\* get_client called from inside the block of tick that holds the driver
\* lock: the registry lock is asked for at any position of the tick that has
\* a message collected.
GetClientLockInsideTick(n) ==
    /\ tpc[n] \in {"advance_apply", "dispatch"}
    /\ midx[n] <= Len(messages[n])
    /\ peersLock[n] = "free"
    /\ peersLock' = [peersLock EXCEPT ![n] = "get_client"]
    /\ tpc' = [tpc EXCEPT ![n] = "get_client"]
    /\ UNCHANGED <<peers, raft, store, nodeLock, ready, messages, midx, addr, trace,
                   outcome, rpcVars, bootVars, calls, joined, ipc, ireq, isrc>>

\* get_client line 171: self.peers.lock().await
GetClientLock(n) ==
    /\ Dispatching(n)
    /\ peersLock[n] = "free"
    /\ peersLock' = [peersLock EXCEPT ![n] = "get_client"]
    /\ tpc' = [tpc EXCEPT ![n] = "get_client"]
    /\ UNCHANGED <<peers, raft, store, nodeLock, ready, messages, midx, addr, trace,
                   outcome, rpcVars, bootVars, calls, joined, ipc, ireq, isrc>>

\* get_client lines 172-174 and handle_messages lines 185-192: the rank is
\* not in the registry; the guard is dropped with the return of the Err,
\* which is logged and skipped.
GetClientMiss(n) ==
    /\ tpc[n] = "get_client"
    /\ DestRank(n) \notin DOMAIN peers[n]
    /\ peersLock' = [peersLock EXCEPT ![n] = "free"]
    /\ outcome' = [outcome EXCEPT ![n] = Append(@, "unknown_peer")]
    /\ midx' = [midx EXCEPT ![n] = @ + 1]
    /\ tpc' = [tpc EXCEPT ![n] = "dispatch"]
    /\ UNCHANGED <<peers, raft, store, nodeLock, ready, messages, addr, trace,
                   rpcVars, bootVars, calls, joined, ipc, ireq, isrc>>

\* get_client lines 175-176: the address is cloned and the block ends: the
\* guard is dropped before new_coordinator_client is called.
GetClientHit(n) ==
    /\ tpc[n] = "get_client"
    /\ DestRank(n) \in DOMAIN peers[n]
    /\ addr' = [addr EXCEPT ![n] = peers[n][DestRank(n)].address]
    /\ peersLock' = [peersLock EXCEPT ![n] = "free"]
    /\ tpc' = [tpc EXCEPT ![n] = "connect"]
    /\ UNCHANGED <<peers, raft, store, nodeLock, ready, messages, midx, trace,
                   outcome, rpcVars, bootVars, calls, joined, ipc, ireq, isrc>>

\* get_client line 178 and handle_messages lines 185-192: the connect fails.
ClientConnectFail(n) ==
    /\ tpc[n] = "connect"
    /\ outcome' = [outcome EXCEPT ![n] = Append(@, "connect_failed")]
    /\ midx' = [midx EXCEPT ![n] = @ + 1]
    /\ tpc' = [tpc EXCEPT ![n] = "dispatch"]
    /\ UNCHANGED <<peers, raft, store, nodeLock, ready, messages, addr, trace,
                   rpcVars, bootVars, calls, joined, regVars>>

\* handle_messages lines 194-198: the request reaches the raft_message
\* handler of the node at the address, and the caller awaits the reply.
ClientSend(n) ==
    /\ tpc[n] = "connect"
    /\ Listening(addr[n])
    /\ hpc[NodeAt(addr[n])] = "idle"
    /\ hpc' = [hpc EXCEPT ![NodeAt(addr[n])] = "recv"]
    /\ hreq' = [hreq EXCEPT ![NodeAt(addr[n])] = WriteToBytes(messages[n][midx[n]])]
    /\ hsrc' = [hsrc EXCEPT ![NodeAt(addr[n])] = LocalAddr(n)]
    /\ hres' = [hres EXCEPT ![NodeAt(addr[n])] = "none"]
    /\ trace' = [trace EXCEPT ![n] = Append(@, "send")]
    /\ tpc' = [tpc EXCEPT ![n] = "await"]
    /\ UNCHANGED <<peers, raft, store, nodeLock, ready, messages, midx, addr, outcome,
                   bootVars, calls, joined, regVars>>

\* handle_messages line 198: the call fails in the transport, and the ?
\* returns the error.
ClientRpcFail(n) ==
    /\ tpc[n] = "connect"
    /\ Listening(addr[n])
    /\ trace' = [trace EXCEPT ![n] = Append(@, "send")]
    /\ outcome' = [outcome EXCEPT ![n] = Append(@, "rpc_failed")]
    /\ tpc' = [tpc EXCEPT ![n] = "halted"]
    /\ UNCHANGED <<peers, raft, store, nodeLock, ready, messages, midx, addr,
                   rpcVars, bootVars, calls, joined, regVars>>

\* info line 275: self.peers.lock().await
InfoLock(m) ==
    /\ ipc[m] = "lock"
    /\ peersLock[m] = "free"
    /\ peersLock' = [peersLock EXCEPT ![m] = "info"]
    /\ ipc' = [ipc EXCEPT ![m] = "serve"]
    /\ UNCHANGED <<peers, raft, store, nodeLock, tickVars, rpcVars, bootVars, calls,
                   joined, ireq, isrc>>

\* info lines 277-286: the requester is inserted, the reply is built from
\* the registry and self.node(), and the guard is dropped on return.  The
\* reply of a bootstrap's request is that bootstrap's response (line 228).
InfoServe(m) ==
    /\ ipc[m] = "serve"
    /\ peers' = [peers EXCEPT ![m] = InfoPeers(m, ireq[m])]
    /\ peersLock' = [peersLock EXCEPT ![m] = "free"]
    /\ IF isrc[m] = "env"
       THEN UNCHANGED <<bpc, bresp>>
       ELSE /\ \E reply \in InfoReplies(m, ireq[m]) :
                  bresp' = [bresp EXCEPT ![NodeAt(isrc[m])] = reply]
            /\ bpc' = [bpc EXCEPT ![NodeAt(isrc[m])] = "merge"]
    /\ ipc' = [ipc EXCEPT ![m] = "idle"]
    /\ ireq' = [ireq EXCEPT ![m] = NoRequester]
    /\ isrc' = [isrc EXCEPT ![m] = "env"]
    /\ UNCHANGED <<raft, store, nodeLock, tickVars, rpcVars, addresses, baddr, pushes,
                   calls, joined>>

\* bootstrap lines 222-228: the connection stands and the Info request, with
\* self.node() as the requester, reaches the info handler of the node at the
\* address; bootstrap awaits the response.
BootstrapCall(n) ==
    /\ bpc[n] = "connect"
    /\ Listening(baddr[n])
    /\ ipc[NodeAt(baddr[n])] = "idle"
    /\ ipc' = [ipc EXCEPT ![NodeAt(baddr[n])] = "lock"]
    /\ ireq' = [ireq EXCEPT ![NodeAt(baddr[n])] = SelfInfo(n)]
    /\ isrc' = [isrc EXCEPT ![NodeAt(baddr[n])] = LocalAddr(n)]
    /\ bpc' = [bpc EXCEPT ![n] = "await"]
    /\ UNCHANGED <<peers, raft, store, nodeLock, tickVars, rpcVars, addresses, baddr,
                   bresp, pushes, calls, joined, peersLock>>

\* bootstrap line 234: self.peers.lock().await
BootstrapPeersLock(n) ==
    /\ bpc[n] = "merge"
    /\ peersLock[n] = "free"
    /\ peersLock' = [peersLock EXCEPT ![n] = "bootstrap"]
    /\ bpc' = [bpc EXCEPT ![n] = "merging"]
    /\ UNCHANGED <<peers, raft, store, nodeLock, tickVars, rpcVars, addresses, baddr,
                   bresp, pushes, calls, joined, ipc, ireq, isrc>>

\* A merge whose guard outlives the loop body: the registry lock is still
\* held when the next address is popped and probed.
BootstrapPeersMergeKeepsGuard(n) ==
    /\ bpc[n] = "merging"
    /\ LET st == MergePeers([peers |-> peers[n], addresses |-> addresses[n],
                             pushes |-> pushes[n]],
                            bresp[n], 1, n, baddr[n])
       IN /\ peers' = [peers EXCEPT ![n] = st.peers]
          /\ addresses' = [addresses EXCEPT ![n] = st.addresses]
          /\ pushes' = [pushes EXCEPT ![n] = st.pushes]
    /\ bresp' = [bresp EXCEPT ![n] = <<>>]
    /\ bpc' = [bpc EXCEPT ![n] = "loop"]
    /\ UNCHANGED <<raft, store, nodeLock, tickVars, rpcVars, baddr, calls, joined,
                   regVars>>

\* bootstrap lines 236-248: the reply is merged, and the guard is dropped
\* at the end of the loop body, before the next address is popped.
BootstrapPeersMerge(n) ==
    /\ bpc[n] = "merging"
    /\ LET st == MergePeers([peers |-> peers[n], addresses |-> addresses[n],
                             pushes |-> pushes[n]],
                            bresp[n], 1, n, baddr[n])
       IN /\ peers' = [peers EXCEPT ![n] = st.peers]
          /\ addresses' = [addresses EXCEPT ![n] = st.addresses]
          /\ pushes' = [pushes EXCEPT ![n] = st.pushes]
    /\ bresp' = [bresp EXCEPT ![n] = <<>>]
    /\ peersLock' = [peersLock EXCEPT ![n] = "free"]
    /\ bpc' = [bpc EXCEPT ![n] = "loop"]
    /\ UNCHANGED <<raft, store, nodeLock, tickVars, rpcVars, baddr, calls, joined,
                   ipc, ireq, isrc>>

\* bootstrap line 212, called with one address: that of any node (its own
\* too) or one nobody listens on.
BootstrapStartOne(n) ==
    /\ bpc[n] \in {"idle", "done", "failed"}
    /\ calls < MaxCalls
    /\ \E a \in Addrs : addresses' = [addresses EXCEPT ![n] = <<a>>]
    /\ bpc' = [bpc EXCEPT ![n] = "loop"]
    /\ pushes' = [pushes EXCEPT ![n] = [r \in Ranks |-> 0]]
    /\ calls' = calls + 1
    /\ UNCHANGED <<peers, raft, store, nodeLock, tickVars, rpcVars, baddr, bresp,
                   joined, regVars>>

\* The steps the tasks take once they have been called: the tick loop past
\* its lock, dispatch, the two handlers, bootstrap.
TaskStep ==
    \/ \E n \in Nodes :
          \/ TickNode(n) \/ TickReady(n) \/ TickSnapshot(n)
          \/ TickEntries(n) \/ TickHardState(n) \/ TickPersisted(n)
          \/ TickAdvance(n) \/ TickAdvanceApply(n)
          \/ GetClientLock(n) \/ GetClientMiss(n) \/ GetClientHit(n)
          \/ ClientConnectFail(n) \/ ClientSend(n) \/ ClientRpcFail(n)
          \/ DispatchReply(n) \/ DispatchDone(n) \/ RunExit(n)
    \/ \E m \in Nodes :
          \/ RaftMessageParse(m) \/ RaftMessageLock(m) \/ RaftMessageStep(m)
          \/ InfoLock(m) \/ InfoServe(m)
    \/ \E n \in Nodes :
          \/ BootstrapPop(n) \/ BootstrapFail(n)
          \/ BootstrapCall(n) \/ BootstrapPeersLock(n) \/ BootstrapPeersMerge(n)

\* What starts a task: the sleep of a tick loop ends, a RaftMessage request
\* arrives, bootstrap is called.
TaskStart ==
    \E n \in Nodes : TickLock(n) \/ RaftMessageRecv(n) \/ BootstrapStartOne(n)

\* Nodes 0 and 1 know each other, node 2 knows nobody and nobody knows it.
InitLocks ==
    /\ joined = 0 .. 1
    /\ peers = Discovered(joined)
    /\ Idle
NextLocks == TaskStep \/ TaskStart
SpecLocks == InitLocks /\ [][NextLocks]_vars

\* The runtime runs every task that can take a step; the Mutex of tokio
\* hands the lock to a waiting task once it is free.
SpecLocksFair == SpecLocks /\ WF_vars(TaskStep)

\* The three-node scenario: nobody knows anybody; node 0 calls bootstrap with
\* no address to probe (an empty list, or empty strings), nodes 1 and 2 call
\* it with the address of node 0.  The calls are made in the order of the
\* ranks; a run may still be going on when the next one is called.
ScenarioSeeds(n) ==
    IF n = 0 THEN {sl \in SeedLists : \A i \in DOMAIN sl : sl[i] = ""}
    ELSE SingleSeedLists(0)
InitScenario ==
    /\ joined = {}
    /\ peers = Discovered(joined)
    /\ Idle
ScenarioStart(n) ==
    /\ bpc[n] = "idle"
    /\ \A m \in Nodes : m < n => bpc[m] # "idle"
    /\ \E seeds \in ScenarioSeeds(n) : addresses' = [addresses EXCEPT ![n] = seeds]
    /\ bpc' = [bpc EXCEPT ![n] = "loop"]
    /\ pushes' = [pushes EXCEPT ![n] = [r \in Ranks |-> 0]]
    /\ UNCHANGED <<peers, raft, store, nodeLock, tickVars, rpcVars, baddr, bresp,
                   calls, joined, regVars>>
NextScenario == \E n \in Nodes : ScenarioStart(n) \/ BootstrapStep(n)
SpecScenario == InitScenario /\ [][NextScenario]_vars

\* ================================================================ claims

\* Whether event e comes before position i of trace tr.
Before(tr, e, i) == \E j \in 1 .. (i - 1) : tr[j] = e

LastOutcome(n) == outcome[n][Len(outcome[n])]

\* The batch of n has been walked to its end: handle_messages returns Ok.
BatchDone(n) == tpc[n] = "dispatch" /\ midx[n] > Len(messages[n])

\* C1 -- persistence before dispatch: whenever a message of a tick cycle has
\* been handed to the transport, the snapshot install, the entry append and
\* the hard-state write that the Ready of this cycle asked for have all been
\* done in the storage before it.
C1_PersistBeforeDispatch ==
    \A n \in Nodes : \A i \in DOMAIN trace[n] :
        trace[n][i] = "send" =>
            /\ (ready[n].snap => Before(trace[n], "apply_snapshot", i))
            /\ (ready[n].ents => Before(trace[n], "append", i))
            /\ (ready[n].hs => Before(trace[n], "set_hardstate", i))
            /\ Before(trace[n], "advance_apply", i)

\* A cycle whose Ready held a snapshot, entries and a hard state, and which
\* has handed a message to the transport.
C1_Witness ==
    \E n \in Nodes :
        /\ ready[n].snap /\ ready[n].ents /\ ready[n].hs
        /\ Len(messages[n]) = MaxBatch
        /\ \E i \in DOMAIN trace[n] : trace[n][i] = "send"
        /\ store[n].snap > 0 /\ store[n].log > 0

\* C3 -- an error local to one message never halts the tick loop: the loop
\* is never left because the delivery of one message failed.
C3_MessageErrorNeverHalts ==
    \A n \in Nodes :
        ~(tpc[n] = "halted" /\ outcome[n] # <<>> /\ LastOutcome(n) = "rpc_failed")

\* C4 -- unknown-peer dispatch is non-fatal: a message to a rank the registry
\* does not hold is dropped and the loop goes on to the next message; it is
\* never the reason handle_messages returns an error; and when the batch is
\* done every message has been handled, the others attempted at the address
\* registered for their rank.
C4_UnknownPeerNonFatal ==
    \A n \in Nodes :
        /\ \A i \in DOMAIN outcome[n] :
              outcome[n][i] = "unknown_peer" =>
                  /\ midx[n] > i
                  /\ ~(tpc[n] = "halted" /\ i = Len(outcome[n]))
        /\ BatchDone(n) =>
              /\ Len(outcome[n]) = Len(messages[n])
              /\ \A i \in DOMAIN outcome[n] :
                    outcome[n][i] # "unknown_peer" =>
                        /\ messages[n][i].to - 1 \in DOMAIN peers[n]
                        /\ outcome[n][i] \in {"delivered", "connect_failed"}

\* A batch of an unknown rank and then a registered, reachable one: the
\* first was dropped, the second delivered, and handle_messages returns Ok.
C4_Witness ==
    \E n \in Nodes :
        /\ BatchDone(n)
        /\ outcome[n] = <<"unknown_peer", "delivered">>
        /\ messages[n][1].to # messages[n][2].to

\* C5 -- a transport error on one message abandons that message only: no
\* failed delivery leaves later messages of the batch unattempted.
C5_LaterMessagesAttempted ==
    \A n \in Nodes : \A i \in DOMAIN outcome[n] :
        outcome[n][i] \in {"connect_failed", "rpc_failed"} =>
            ~(tpc[n] = "halted" /\ i < Len(messages[n]))

\* The request of handler m fails in the step the handler is about to take.
RequestFails(m) ==
    \/ hpc[m] = "recv" /\ ~WellFormed(hreq[m])
    \/ hpc[m] = "step" /\ StepRejects(raft[m], ParseFromBytes(hreq[m]))

\* C10 -- a RaftMessage request that fails (bytes that do not parse, or a
\* message step rejects) is answered with an internal error, changes neither
\* the consensus state nor the storage nor any registry, and the handler
\* does not keep the driver lock.
C10_FailedRequestLeavesState ==
    [][\A m \in Nodes :
          (RequestFails(m) /\ hpc'[m] # hpc[m]) =>
              /\ hres'[m] \in {"internal: failed to parse message",
                               "internal: failed to step state machine"}
              /\ raft' = raft /\ store' = store /\ peers' = peers
              /\ nodeLock'[m] # "rpc"]_vars

\* Step has rejected a request at a node and a later tick cycle of that node
\* has taken the driver lock.
C10_Witness ==
    \E m \in Nodes :
        /\ hres[m] = "internal: failed to step state machine"
        /\ hpc[m] = "idle"
        /\ nodeLock[m] = "tick"

\* C2 -- no own-rank entry: the Peer Registry of a node never holds an entry
\* under the node's own rank, whatever bootstraps and Info requests ran.
C2_NoOwnRankEntry ==
    \A n \in Nodes : n \notin DOMAIN peers[n]

\* C6 -- registry monotonicity: no step removes a rank from a registry, so a
\* lookup (contains_key) that succeeded once succeeds ever after; the entry
\* under the rank may be replaced.
C6_RegistryNeverShrinks ==
    [][\A n \in Nodes : DOMAIN peers[n] \subseteq DOMAIN peers'[n]]_vars

\* A registered rank has been announced again under another address, and a
\* bootstrap of a node that knew nobody has returned with ranks merged in.
C6_Witness ==
    /\ \E n \in joined : \E r \in joined \ {n} : peers[n][r].address = DeadAddr
    /\ \E n \in Nodes \ joined :
          /\ bpc[n] \in {"done", "failed"}
          /\ Cardinality(DOMAIN peers[n]) >= 2

\* The number of seeds of the joining run.
NumSeeds == Cardinality(joined)

\* C7 as stated -- a node that bootstrapped from one of N fully connected
\* seeds ends with an empty work-list and exactly N-1 peers registered.
C7_ConvergesToNMinusOne ==
    \A n \in Nodes \ joined :
        bpc[n] = "done" =>
            /\ addresses[n] = <<>>
            /\ Cardinality(DOMAIN peers[n]) = NumSeeds - 1

\* C7 -- bootstrap convergence: a node that bootstraps from the address of
\* one of N fully connected seeds comes to an end; when it returns Ok its
\* work-list is empty and its registry holds exactly the N seeds (N peers,
\* itself not among them).
C7_ConvergesToAllSeeds ==
    /\ [](\A n \in Nodes \ joined :
             bpc[n] = "done" =>
                 /\ addresses[n] = <<>>
                 /\ DOMAIN peers[n] = joined
                 /\ Cardinality(DOMAIN peers[n]) = NumSeeds)
    /\ <>(\E n \in Nodes \ joined : bpc[n] \in {"done", "failed"})

\* The new node has returned Ok from a bootstrap over two seeds, one of
\* which it learnt from the other.
C7_Witness ==
    \E n \in Nodes \ joined :
        /\ bpc[n] = "done"
        /\ NumSeeds = 2
        /\ DOMAIN peers[n] = joined
        /\ \E r \in joined : pushes[n][r] = 1

\* C8 -- bootstrap terminates: every bootstrap that is called comes to return
\* (Ok on an empty work-list, or the error of a failed call), whatever Info
\* requests are served meanwhile, so that in the end no bootstrap is left
\* running; an address is pushed only in the step that adds its rank to the
\* registry, so no rank causes two pushes in one run.
C8_BootstrapTerminates ==
    /\ [](\A n \in Nodes : \A r \in Ranks : pushes[n][r] <= 1)
    /\ [][\A n \in Nodes : \A r \in Ranks :
            pushes'[n][r] > pushes[n][r] =>
                r \notin DOMAIN peers[n] /\ r \in DOMAIN peers'[n]]_vars
    /\ <>[](\A n \in Nodes : bpc[n] \notin {"loop", "connect", "merge"})

\* A bootstrap has returned Ok after a push, with an Info request from
\* outside served as well.
C8_Witness ==
    /\ calls = MaxCalls
    /\ \E n \in Nodes :
          /\ bpc[n] = "done"
          /\ \E r \in Ranks : pushes[n][r] = 1
    /\ \E n \in Nodes : \E r \in DOMAIN peers[n] : peers[n][r].address = DeadAddr

\* C9 -- the reply of an Info request holds the requester and exactly one
\* entry per rank: no reply a bootstrap received names a rank twice.
C9_ReplyOneEntryPerRank ==
    \A n \in Nodes :
        /\ bresp[n] # <<>> => \E i \in DOMAIN bresp[n] : bresp[n][i] = SelfInfo(n)
        /\ \A i, j \in DOMAIN bresp[n] :
              bresp[n][i].rank = bresp[n][j].rank => i = j

\* C12 -- the three-node scenario: once the bootstraps of nodes 0, 1 and 2
\* have all returned Ok, the Peer Registry of each node holds exactly the
\* other two ranks, each under the address that node advertises.
C12_ScenarioRegistriesComplete ==
    (\A n \in Nodes : bpc[n] = "done") =>
        \A n \in Nodes :
            /\ DOMAIN peers[n] = Nodes \ {n}
            /\ \A r \in DOMAIN peers[n] : peers[n][r] = SelfInfo(r)

\* The three bootstraps have returned Ok, and one of the later nodes probed
\* the other at the address it learnt from node 0.
C12_Witness ==
    /\ \A n \in Nodes : bpc[n] = "done"
    /\ \E n \in Nodes \ {0} : \E r \in Nodes \ {0, n} :
          pushes[n][r] = 1 /\ baddr[n] = LocalAddr(r)

\* C13 -- a failed probe is fatal to bootstrap: a probe of an address nobody
\* answers at can only end in the error return, with the rest of the
\* work-list left unprobed; after the error return the run does nothing more
\* (only a new call of bootstrap starts again); and bootstrap returns Ok only
\* from the head of the loop with the work-list empty.
C13_ProbeFailureIsFatal ==
    [][\A n \in Nodes :
          /\ (bpc[n] = "connect" /\ ~Listening(baddr[n]) /\ bpc'[n] # bpc[n]) =>
                /\ bpc'[n] = "failed"
                /\ addresses'[n] = addresses[n]
                /\ peers'[n] = peers[n]
          /\ (bpc[n] = "failed" /\ calls' = calls) =>
                /\ bpc'[n] = "failed"
                /\ addresses'[n] = addresses[n]
                /\ baddr'[n] = baddr[n]
          /\ (bpc'[n] = "done" /\ bpc[n] # "done") =>
                bpc[n] = "loop" /\ addresses[n] = <<>>]_vars

\* A bootstrap has returned the error of a probe of a derived address that
\* nobody listens on, with an address of its work-list still unprobed.
C13_Witness ==
    \E n \in Nodes :
        /\ bpc[n] = "failed"
        /\ baddr[n] = DeadAddr
        /\ addresses[n] # <<>>
        /\ \E r \in Ranks : pushes[n][r] = 1

\* C14 -- id offset: every message a node collects carries the node's rank
\* plus one as its sender, a node votes for nobody but rank + 1 as itself,
\* and a message to id i is sent only after rank i - 1 was found in the
\* registry, to the address registered under rank i - 1, whose node
\* receives the bytes of that message.
C14_IdOffset ==
    /\ [](\A n \in Nodes :
             /\ \A i \in DOMAIN messages[n] :
                   messages[n][i].from = n + 1 /\ messages[n][i].to - 1 \in Ranks
             /\ raft[n].vote \in {0, n + 1})
    /\ [][\A n \in Nodes :
            (tpc[n] = "dispatch" /\ tpc'[n] = "await") =>
                LET msg == messages[n][midx[n]]
                IN /\ msg.to - 1 \in DOMAIN peers[n]
                   /\ addr'[n] = peers[n][msg.to - 1].address
                   /\ hreq'[NodeAt(addr'[n])] = WriteToBytes(msg)
                   /\ hsrc'[NodeAt(addr'[n])] = LocalAddr(n)]_vars

\* Node 1 has sent a message for id 1 to the address of rank 0 and awaits
\* the reply; its registry holds rank 1 + 1 too.
C14_Witness ==
    /\ tpc[1] = "await"
    /\ messages[1][midx[1]].to = 1
    /\ addr[1] = LocalAddr(0)
    /\ 2 \in DOMAIN peers[1]
    /\ hpc[0] = "recv"

\* The calls of one tick in their fixed order, for a Ready with the given
\* parts.
TickOrder(rd) ==
    <<"tick", "messages">>
    \o (IF rd.snap THEN <<"apply_snapshot">> ELSE <<>>)
    \o (IF rd.ents THEN <<"append">> ELSE <<>>)
    \o (IF rd.hs THEN <<"set_hardstate">> ELSE <<>>)
    \o <<"persisted_messages", "advance", "advance_apply">>

\* The calls of this cycle before the first message was sent.
LockedCalls(n) ==
    SubSeq(trace[n], 1,
           IF \E i \in DOMAIN trace[n] : trace[n][i] = "send"
           THEN (CHOOSE i \in DOMAIN trace[n] :
                    trace[n][i] = "send" /\ ~Before(trace[n], "send", i)) - 1
           ELSE Len(trace[n]))

\* How many calls of the order lie behind each position of the tick.
CallsBy(pc, rd) ==
    LET b(x) == IF x THEN 1 ELSE 0
    IN CASE pc = "snapshot" -> 2
         [] pc = "entries" -> 2 + b(rd.snap)
         [] pc = "hardstate" -> 2 + b(rd.snap) + b(rd.ents)
         [] pc = "persisted" -> 2 + b(rd.snap) + b(rd.ents) + b(rd.hs)
         [] pc = "advance" -> 3 + b(rd.snap) + b(rd.ents) + b(rd.hs)
         [] pc = "advance_apply" -> 4 + b(rd.snap) + b(rd.ents) + b(rd.hs)
         [] OTHER -> 5 + b(rd.snap) + b(rd.ents) + b(rd.hs)

\* C15 -- fixed order within a tick: in a tick that read a Ready, the calls
\* made so far are exactly the calls of the fixed order (pre-persistence
\* messages, snapshot, entries, hard state, post-persistence messages,
\* advance with the light-ready messages, advance_apply) that lie behind the
\* position the tick is at, none left out and none out of place, and when
\* the messages are dispatched the whole order has been made.
C15_FixedOrder ==
    \A n \in Nodes :
        tpc[n] \in {"snapshot", "entries", "hardstate", "persisted", "advance",
                    "advance_apply", "dispatch", "await"} =>
            /\ LockedCalls(n) =
                  SubSeq(TickOrder(ready[n]), 1, CallsBy(tpc[n], ready[n]))
            /\ tpc[n] \in {"dispatch", "await"} =>
                  LockedCalls(n) = TickOrder(ready[n])

\* A tick with a snapshot, entries and a hard state has made every call of
\* the order and is dispatching.
C15_Witness ==
    \E n \in Nodes :
        /\ tpc[n] = "await"
        /\ ready[n].snap /\ ready[n].ents /\ ready[n].hs
        /\ Len(LockedCalls(n)) = 8

\* The positions of a tick between taking the driver lock (line 94) and the
\* end of the block that holds it (line 162).
InLockedBlock(n) ==
    tpc[n] \in {"locked", "ready", "snapshot", "entries", "hardstate", "persisted",
                "advance", "advance_apply"}

\* C16 -- one lock acquisition per tick: from node.tick() to advance_apply
\* the tick loop holds the driver lock without a break, no RaftMessage
\* handler of the node is at its step in that time, and the consensus state
\* and the storage of the node change by the steps of the tick only.
C16_TickUnderOneLock ==
    /\ [](\A n \in Nodes :
             InLockedBlock(n) => nodeLock[n] = "tick" /\ hpc[n] # "step")
    /\ [][\A n \in Nodes :
            (InLockedBlock(n) /\ tpc'[n] = tpc[n]) =>
                /\ raft'[n] = raft[n]
                /\ store'[n] = store[n]
                /\ nodeLock'[n] = "tick"]_vars

\* A request waits for the driver lock while a tick that has read its Ready
\* is writing the hard state.
C16_Witness ==
    \E n \in Nodes :
        /\ tpc[n] = "hardstate"
        /\ ready[n].hs
        /\ hpc[n] = "lock"

\* C17 -- dispatch without the driver lock: while handle_messages walks the
\* batch or awaits the reply of a peer, the tick loop does not hold the
\* driver lock, and a RaftMessage request that has reached the lock on the
\* same node can take it.
C17_DispatchWithoutLock ==
    \A n \in Nodes :
        tpc[n] \in {"dispatch", "await"} =>
            /\ nodeLock[n] # "tick"
            /\ hpc[n] = "lock" => ENABLED RaftMessageLock(n)

\* A node awaits the reply to a message it sent while a request to the same
\* node holds the driver lock and steps.
C17_Witness ==
    \E n \in Nodes :
        /\ tpc[n] = "await"
        /\ hpc[n] = "step"
        /\ nodeLock[n] = "rpc"

\* C19 -- a tick without a Ready is a no-op: when has_ready is false after
\* node.tick(), the cycle ends there; the storage is as it was, term, vote
\* and commit index are as before the cycle, no message was collected or is
\* dispatched, no call was made past node.tick(), and the lock is released.
C19_NoReadyNoOp ==
    [][\A n \in Nodes :
          (tpc[n] = "locked" /\ tpc'[n] # "locked" /\ ~HasReady(raft'[n])) =>
              /\ tpc'[n] = "sleep"
              /\ store' = store
              /\ HardState(raft'[n]) = HardState(raft[n])
              /\ messages'[n] = <<>> /\ trace'[n] = <<>>
              /\ nodeLock'[n] = "free"
              /\ hpc' = hpc /\ hreq' = hreq]_vars

\* One call was made, a tick cycle without a Ready, which is over: every
\* loop sleeps and nothing differs from the state after construction.
C19_Witness ==
    /\ calls = 1
    /\ joined = {}
    /\ peers = Discovered({})
    /\ \A n \in Nodes :
          /\ tpc[n] = "sleep" /\ hpc[n] = "idle" /\ hres[n] = "none"
          /\ raft[n] = NewRaft /\ store[n] = NewStore
          /\ nodeLock[n] = "free"

\* C18 -- the two locks are never coupled: the tick loop is the one task
\* that takes both, and it never has the two at once; a task that holds the
\* driver lock is inside its block (the locked part of tick, the step of
\* raft_message) and is not asking for the registry lock, and a task that
\* holds the registry lock is inside its block (get_client, info, the merge
\* of bootstrap) and is not asking for the driver lock.
C18_LocksNeverCoupled ==
    \A n \in Nodes :
        /\ ~(nodeLock[n] = "tick" /\ peersLock[n] = "get_client")
        /\ nodeLock[n] = "tick" => InLockedBlock(n)
        /\ nodeLock[n] = "rpc" => hpc[n] = "step"
        /\ peersLock[n] = "get_client" => tpc[n] = "get_client"
        /\ peersLock[n] = "info" => ipc[n] = "serve"
        /\ peersLock[n] = "bootstrap" => bpc[n] = "merging"
        /\ tpc[n] \in {"dispatch", "get_client", "connect", "await"} =>
              nodeLock[n] # "tick"

\* On one node the tick holds the driver lock and writes entries while the
\* bootstrap of the node holds the registry lock for its merge.
C18_Witness ==
    \E n \in Nodes :
        /\ nodeLock[n] = "tick" /\ tpc[n] = "entries" /\ ready[n].ents
        /\ peersLock[n] = "bootstrap" /\ bresp[n] # <<>>

\* The tasks of the nodes, and the task each one waits for: the holder of
\* the lock it asks for, or the handler that serves the RPC it awaits.
Tasks == {"tick", "rpc", "info", "boot"} \X Nodes
DriverHolder(n) == IF nodeLock[n] = "tick" THEN <<"tick", n>> ELSE <<"rpc", n>>
PeersHolder(n) ==
    CASE peersLock[n] = "get_client" -> <<"tick", n>>
      [] peersLock[n] = "info" -> <<"info", n>>
      [] OTHER -> <<"boot", n>>
WaitsFor(t) ==
    LET n == t[2]
    IN CASE t[1] = "tick" ->
              IF Dispatching(n) /\ peersLock[n] # "free" THEN {PeersHolder(n)}
              ELSE IF tpc[n] = "await" THEN {<<"rpc", NodeAt(addr[n])>>}
              ELSE {}
         [] t[1] = "rpc" ->
              IF hpc[n] = "lock" /\ nodeLock[n] # "free" THEN {DriverHolder(n)}
              ELSE {}
         [] t[1] = "info" ->
              IF ipc[n] = "lock" /\ peersLock[n] # "free" THEN {PeersHolder(n)}
              ELSE {}
         [] OTHER ->
              IF bpc[n] = "merge" /\ peersLock[n] # "free" THEN {PeersHolder(n)}
              ELSE IF bpc[n] = "await" THEN {<<"info", NodeAt(baddr[n])>>}
              ELSE {}

\* Whether the chain of waits that starts at t is at least k long.
RECURSIVE WaitChain(_, _)
WaitChain(t, k) ==
    IF WaitsFor(t) = {} THEN FALSE
    ELSE IF k = 0 THEN TRUE
    ELSE WaitChain(CHOOSE u \in WaitsFor(t) : TRUE, k - 1)

\* A task is asking for a lock.
AtLockRequest(n) ==
    hpc[n] = "lock" \/ ipc[n] = "lock" \/ bpc[n] = "merge" \/ Dispatching(n)

====
